---- MODULE Spec2Model ----
(***************************************************************************)
(* A model of the blob-storage access layer of pythonsqltostorage:         *)
(*   utils/parse.py    ParseUtilities (connection string, blob URI)        *)
(*   utils/storage.py  StorageUtils (containers, upload, download, URIs)   *)
(*   utils/tracelog.py FunctionTrace (the call-tracing wrapper)            *)
(* Python strings are sequences of one-character strings, indices are      *)
(* 0-based as in the source, and None is a value of its own.               *)
(***************************************************************************)
EXTENDS Integers, Sequences, FiniteSets, TLC

VARIABLES
    trace_logging,      \* StorageUtils.trace_logging
    connection_string,  \* StorageUtils.connection_string
    account_name,       \* StorageUtils.account_name
    account_key,        \* StorageUtils.account_key
    remote,             \* the storage account: container name -> set of blobs
    dirs,               \* local directories that exist
    files,              \* local files: <<directory, name>> -> bytes
    pc,                 \* "idle", or "upload_loop" inside upload_blob's while
    call,               \* the operation last called, with its arguments
    result,             \* what that call gave its caller
    return_value,       \* upload_blob's local return_value
    attempts,           \* upload_blob's local attempts
    retry_count,        \* upload_blob's local retry_count, after int()
    container_client,   \* upload_blob's local container_client
    tries,              \* history: attempts of this call that opened the file
    late_tries,         \* history: attempts started after a URI was produced
    issued,             \* history: the SAS token issued in the last attempt
    log_added,          \* history: log entries the last call appended
    ncalls,             \* history: operations called so far
    input,              \* the argument of a pure parsing function
    output              \* its result

store_vars == <<trace_logging, connection_string, account_name, account_key>>
env_vars == <<remote, dirs, files>>
upload_vars == <<return_value, attempts, retry_count, container_client,
                 tries, late_tries, issued>>
call_vars == <<pc, call, result, log_added, ncalls>>
pure_vars == <<input, output>>
vars == <<store_vars, env_vars, upload_vars, call_vars, pure_vars>>

----------------------------------------------------------------------------
(* Bounds of the model. *)

MaxRetry == 2       \* largest retry_count passed to upload_blob
MaxCalls == 2       \* operations called in one run
MaxFields == 3      \* fields of a connection string
MaxBody == 5        \* characters of a URI after its scheme part
MaxPath == 3        \* characters of a blob path given to the formatter
MaxName == 4        \* characters of a blob path given to download_blob
MaxScripts == 2     \* scripts of the daily run that produced files

----------------------------------------------------------------------------
(* Python values. *)

None == <<"None">>
PyTrue == <<"True">>
PyFalse == <<"False">>

\* bool(x) of a string or None
Truthy(x) == x # None /\ x # <<>>

Min(a, b) == IF a < b THEN a ELSE b

\* s[a:b] for 0 <= a, 0 <= b
Slice(s, a, b) == SubSeq(s, a + 1, Min(b, Len(s)))

\* s[a:]
SliceFrom(s, a) == SubSeq(s, a + 1, Len(s))

\* sub occurs in s at the 0-based position i
OccursAt(s, sub, i) ==
    /\ i >= 0
    /\ i + Len(sub) <= Len(s)
    /\ \A k \in 1..Len(sub) : s[i + k] = sub[k]

\* sub in s
Contains(s, sub) == \E i \in 0..Len(s) : OccursAt(s, sub, i)

\* s.index(sub, start); -1 stands for the ValueError of a missing substring
Index(s, sub, start) ==
    IF \E i \in start..Len(s) : OccursAt(s, sub, i)
    THEN CHOOSE i \in start..Len(s) :
            /\ OccursAt(s, sub, i)
            /\ \A j \in start..(i - 1) : ~OccursAt(s, sub, j)
    ELSE -1

\* s.split(sep)[-1] for a one-character sep: the text after the last sep
RECURSIVE LastPart(_, _)
LastPart(s, sep) ==
    IF Contains(s, sep)
    THEN LastPart(SliceFrom(s, Index(s, sep, 0) + 1), sep)
    ELSE s

\* str.format of a value: None prints as the text None
Format(x) == IF x = None THEN <<"N", "o", "n", "e">> ELSE x

----------------------------------------------------------------------------
(* utils/parse.py *)

ACCOUNT_KEY == <<"A", "c", "c", "o", "u", "n", "t", "K", "e", "y", "=">>
ACCOUNT_NAME == <<"A", "c", "c", "o", "u", "n", "t", "N", "a", "m", "e", "=">>
hyperlink_preamble == <<":", "/", "/">>

\* the value of a last field, which no semicolon ends, given up
_get_conn_value_semicolon_only(conn, value) ==
    IF Contains(conn, value)
    THEN LET idx == Index(conn, value, 0) + Len(value)
             idx2 == Index(conn, <<";">>, idx)
         IN  IF idx2 # -1 THEN Slice(conn, idx, idx2) ELSE None
    ELSE None

\* ParseUtilities._get_conn_value: the text between `value` and the next
\* semicolon, or to the end of the string when index(";") raises
_get_conn_value(conn, value) ==
    IF Contains(conn, value)
    THEN LET idx == Index(conn, value, 0) + Len(value)
             idx2 == Index(conn, <<";">>, idx)
         IN  IF idx2 # -1 THEN Slice(conn, idx, idx2) ELSE SliceFrom(conn, idx)
    ELSE None

\* the key lookup made without testing the account name first
parse_connection_string_eager(storage_connection) ==
    <<_get_conn_value(storage_connection, ACCOUNT_NAME),
      _get_conn_value(storage_connection, ACCOUNT_KEY)>>

\* ParseUtilities.parse_connection_string: <<account_name, account_key>>
parse_connection_string(storage_connection) ==
    LET name == _get_conn_value(storage_connection, ACCOUNT_NAME)
        key == IF Truthy(name)
               THEN _get_conn_value(storage_connection, ACCOUNT_KEY)
               ELSE None
    IN  <<name, key>>

\* the empty dict
EmptyMap == <<>>

Returned(v) == [raised |-> FALSE, value |-> v]
Raised == [raised |-> TRUE, value |-> None]

\* either test alone lets the URI through
uri_shape_ok_either(uri, blob_path) ==
    Contains(uri, <<".">>) \/ Contains(blob_path, <<"/">>)

\* parse_blob_url line 116: the authority has a dot and the raw path a slash
uri_shape_ok(uri, blob_path) ==
    Contains(uri, <<".">>) /\ Contains(blob_path, <<"/">>)

\* the extension taken after the first dot of the file name, not the last
parse_blob_parts_first_dot(uri, raw_path, sas) ==
    LET idx == Index(uri, <<".">>, 0)
        idxc == Index(raw_path, <<"/">>, 0)
    IN  IF idx = -1 \/ idxc = -1 THEN Raised
        ELSE LET name == Slice(uri, 0, idx)
                 container == Slice(raw_path, 0, idxc)
                 blob_path == SliceFrom(raw_path, idxc + 1)
                 file_name == IF ~Contains(blob_path, <<"/">>)
                              THEN blob_path
                              ELSE LastPart(blob_path, <<"/">>)
                 extension == IF Contains(file_name, <<".">>)
                              THEN SliceFrom(file_name,
                                             Index(file_name, <<".">>, 0) + 1)
                              ELSE None
             IN  Returned([account |-> name,
                           container |-> container,
                           blob_path |-> blob_path,
                           file_name |-> file_name,
                           file_extension |-> extension,
                           sas |-> sas])

\* parse_blob_url lines 117-144, reached once the shape test passed; an
\* index() of a missing separator raises
parse_blob_parts(uri, raw_path, sas) ==
    LET idx == Index(uri, <<".">>, 0)
        idxc == Index(raw_path, <<"/">>, 0)
    IN  IF idx = -1 \/ idxc = -1 THEN Raised
        ELSE LET name == Slice(uri, 0, idx)
                 container == Slice(raw_path, 0, idxc)
                 blob_path == SliceFrom(raw_path, idxc + 1)
                 file_name == IF ~Contains(blob_path, <<"/">>)
                              THEN blob_path
                              ELSE LastPart(blob_path, <<"/">>)
                 extension == IF Contains(file_name, <<".">>)
                              THEN LastPart(file_name, <<".">>)
                              ELSE None
             IN  Returned([account |-> name,
                           container |-> container,
                           blob_path |-> blob_path,
                           file_name |-> file_name,
                           file_extension |-> extension,
                           sas |-> sas])

\* ParseUtilities.parse_blob_url
parse_blob_url(blob_uri) ==
    IF ~Truthy(blob_uri) THEN Returned(EmptyMap)
    ELSE IF ~Contains(blob_uri, hyperlink_preamble) THEN Returned(EmptyMap)
    ELSE
    LET idx0 == Index(blob_uri, hyperlink_preamble, 0)
        idx2 == IF Contains(blob_uri, <<"?">>)
                THEN Index(blob_uri, <<"?">>, 0) ELSE -1
        idx == idx0 + Len(hyperlink_preamble)
        sas == IF idx2 # -1 THEN SliceFrom(blob_uri, idx2) ELSE None
        path == IF idx2 # -1 THEN Slice(blob_uri, idx, idx2)
                ELSE SliceFrom(blob_uri, idx)
    IN  IF ~Contains(path, <<"/">>) THEN Returned(EmptyMap)
        ELSE LET idxs == Index(path, <<"/">>, 0)
                 uri == Slice(path, 0, idxs)
                 blob_path == SliceFrom(path, idxs + 1)
             IN  IF uri_shape_ok(uri, blob_path)
                 THEN parse_blob_parts(uri, blob_path, sas)
                 ELSE Returned(EmptyMap)

----------------------------------------------------------------------------
(* utils/storage.py: URI assembly *)

UriScheme == <<"h", "t", "t", "p", "s", ":", "/", "/">>
UriDomain == <<".", "b", "l", "o", "b", ".", "c", "o", "r", "e", ".", "w", "i", "n", "d", "o", "w", "s", ".", "n", "e", "t", "/">>

\* the container and the blob path written without the slash between them
_generate_blob_uri_noslash(account, container, blob_path, sas_token) ==
    UriScheme \o Format(account) \o UriDomain \o Format(container)
        \o Format(blob_path) \o Format(sas_token)

\* StorageUtils._generate_blob_uri
_generate_blob_uri(account, container, blob_path, sas_token) ==
    UriScheme \o Format(account) \o UriDomain \o Format(container) \o <<"/">>
        \o Format(blob_path) \o Format(sas_token)

\* StorageUtils.generate_uri
generate_uri(container, blob_name, sas_token) ==
    _generate_blob_uri(account_name, container, blob_name, sas_token)

----------------------------------------------------------------------------
(* The environment: the storage account, the local disk, the callers'      *)
(* arguments and the steps of a storage call that can fail.                *)

Containers == {<<"c">>, <<"d">>}
\* blob paths given to upload_blob together with the other operations of a
\* store: a name, a name in a folder, a folder
StorePaths == {<<"a">>, <<"b", "/", "a">>, <<"b", "/">>}
\* blob paths given to download_blob: those, the same with backslashes, a
\* path with both separators, the dot and the empty path
BlobPaths ==
    StorePaths \cup {<<"b", "\\", "a">>, <<"b", "\\">>, <<"/", "\\", "a">>,
                     <<".">>, <<>>}
LocalDirs == {"dl"}
\* local files given to upload_blob: two that exist and one that does not
Objs == {"f1", "f2", "nofile"}
Sigs == {<<"s">>, <<"t">>}

LocalFileExists(obj) == obj \in {"f1", "f2"}
\* the bytes of the local files
FileData(obj) == IF obj = "f1" THEN <<"1">> ELSE <<"2">>

NoContainer == [exists |-> FALSE, blobs |-> {}]
NewContainer == [exists |-> TRUE, blobs |-> {}]

RetryArgs == {[num |-> TRUE, val |-> n] : n \in {0, 1, MaxRetry}}
                 \cup {[num |-> FALSE, val |-> 0]}

CreateFaults == {"none", "container", "create"}
\* the container lookup of an upload_blob or list_blobs works or fails
LookupFaults == {"none", "container"}
AttemptFaults == {"none", "list", "delete", "upload", "sas"}
SasFaults == {"none", "sas"}
\* sas_token arguments of generate_uri
Tokens == {None, <<"?", "s">>}
DownloadFaults == {"none", "container", "create", "list", "download",
                   "readinto"}

BlobNames(rem, container) == {b.name : b \in rem[container].blobs}
BlobsNamed(rem, container, name) == {b \in rem[container].blobs : b.name = name}

\* container_client.delete_blob(name)
DeleteBlob(rem, container, name) ==
    [rem EXCEPT ![container].blobs = {b \in @ : b.name # name}]

\* blob_client.upload_blob(stream): the service refuses a name that exists
\* (overwrite is off by default) and stores the bytes otherwise
StoreBlob(rem, container, name, data) ==
    [rem EXCEPT ![container].blobs = @ \cup {[name |-> name, data |-> data]}]

----------------------------------------------------------------------------
(* utils/tracelog.py *)

\* FunctionTrace.__call__: an exception of the wrapped function is logged and
\* swallowed, and the caller gets the return_value set so far, None
FunctionTrace(outcome) ==
    IF outcome.raised THEN Returned(None) ELSE outcome

\* a method as the constructor left it: wrapped when trace_logging is set
Traced(outcome) == IF trace_logging THEN FunctionTrace(outcome) ELSE outcome

\* log entries of one call of a wrapped method
LogEntry == IF trace_logging THEN 1 ELSE 0

----------------------------------------------------------------------------
(* utils/storage.py *)

\* the service requests of create_container
ListRequest == <<"list_containers">>
CreateRequest == <<"create_container">>

\* blob_srv_client.create_container(name): the service refuses a name that
\* exists (ResourceExistsError) and adds an empty container otherwise
ServiceCreate(rem, container_name) ==
    IF rem[container_name].exists
    THEN [ok |-> FALSE, remote |-> rem]
    ELSE [ok |-> TRUE, remote |-> [rem EXCEPT ![container_name] = NewContainer]]

\* the create request sent whether or not the name is listed
create_container_always_creates(rem, container_name, fault) ==
    IF fault = "container"
    THEN [outcome |-> Raised, remote |-> rem, requests |-> ListRequest]
    ELSE LET made == ServiceCreate(rem, container_name)
         IN  IF fault = "create" \/ ~made.ok
             THEN [outcome |-> Raised, remote |-> rem,
                   requests |-> ListRequest \o CreateRequest]
             ELSE [outcome |-> Returned(container_name), remote |-> made.remote,
                   requests |-> ListRequest \o CreateRequest]

\* the reference handed out without creating a missing container
create_container_lookup_only(rem, container_name, fault) ==
    IF fault = "container"
    THEN [outcome |-> Raised, remote |-> rem, requests |-> ListRequest]
    ELSE [outcome |-> Returned(container_name), remote |-> rem,
          requests |-> ListRequest]

\* StorageUtils.create_container on the account `rem`: the outcome (the
\* container client is the container's name), the account, and the requests
\* sent to the service
create_container(rem, container_name, fault) ==
    IF fault = "container"
    THEN \* listing the containers failed
         [outcome |-> Raised, remote |-> rem, requests |-> ListRequest]
    ELSE IF rem[container_name].exists
    THEN [outcome |-> Returned(container_name), remote |-> rem,
          requests |-> ListRequest]
    ELSE LET made == ServiceCreate(rem, container_name)
         IN  IF fault = "create" \/ ~made.ok
             THEN \* creating the container failed
                  [outcome |-> Raised, remote |-> rem,
                   requests |-> ListRequest \o CreateRequest]
             ELSE [outcome |-> Returned(container_name), remote |-> made.remote,
                   requests |-> ListRequest \o CreateRequest]

\* StorageUtils.generate_sas_token_blob: generate_blob_sas signs with the
\* account's name and key and raises without them
generate_sas_token_blob(container_name, blob_name, sig, fault) ==
    IF fault = "sas" \/ account_name = None \/ account_key = None
    THEN Raised
    ELSE Returned(<<"?">> \o sig)

\* StorageUtils.generate_sas_token_container: generate_container_sas signs
\* with the account's name and key and raises without them
generate_sas_token_container(container_name, sig, fault) ==
    IF fault = "sas" \/ account_name = None \/ account_key = None
    THEN Raised
    ELSE Returned(<<"?">> \o sig)

\* StorageUtils.list_containers: the names, or [name, public_access] pairs;
\* the containers of this account have no public access
list_containers(rem, get_public_access, fault) ==
    IF fault = "container" THEN Raised
    ELSE IF get_public_access
    THEN [raised |-> FALSE,
          value |-> {<<c, None>> : c \in {x \in DOMAIN rem : rem[x].exists}}]
    ELSE [raised |-> FALSE, value |-> {x \in DOMAIN rem : rem[x].exists}]

\* the stream of a retry left where the previous attempt stopped reading
StreamData_not_reopened(obj, attempt) ==
    IF attempt = 0 THEN FileData(obj) ELSE <<>>

\* upload_blob line 137: each attempt opens the local file anew
StreamData(obj, attempt) == FileData(obj)

\* the loop test without the test of return_value
upload_loop_test_count_only(rv, n, limit) == n < limit

\* upload_blob line 133: while return_value is None and attempts < retry_count
upload_loop_test(rv, n, limit) == rv = None /\ n < limit

\* upload_blob lines 139-159: the try block of one attempt.
\* ok: no exception reached the except clause
upload_try(rem, container_name, obj_path, data, sig, fault) ==
    LET found == obj_path \in BlobNames(rem, container_name)
        deleted == IF found THEN DeleteBlob(rem, container_name, obj_path)
                   ELSE rem
        stored == StoreBlob(deleted, container_name, obj_path, data)
        sas == Traced(generate_sas_token_blob(container_name, obj_path, sig, fault))
        failed(r) == [ok |-> FALSE, remote |-> r, uri |-> None, sas |-> None,
                      log |-> 0]
    IN  IF fault = "list" THEN failed(rem)
        ELSE IF found /\ fault = "delete" THEN failed(rem)
        ELSE IF fault = "upload" THEN failed(deleted)
        ELSE IF obj_path \in BlobNames(deleted, container_name)
        THEN failed(deleted)
        ELSE IF sas.raised
        THEN [ok |-> FALSE, remote |-> stored, uri |-> None, sas |-> None,
              log |-> LogEntry]
        ELSE [ok |-> TRUE, remote |-> stored,
              uri |-> _generate_blob_uri(account_name, container_name,
                                         obj_path, sas.value),
              sas |-> sas.value, log |-> LogEntry]

\* the backslash not taken for a separator
LocalFileName_slash_only(blob_path) ==
    IF Contains(blob_path, <<"/">>) THEN LastPart(blob_path, <<"/">>)
    ELSE blob_path

\* the blob path used whole, directories included
LocalFileName_whole(blob_path) == blob_path

\* download_blob lines 196-201: the name of the local file
LocalFileName(blob_path) ==
    IF Contains(blob_path, <<"/">>) THEN LastPart(blob_path, <<"/">>)
    ELSE IF Contains(blob_path, <<"\\">>) THEN LastPart(blob_path, <<"\\">>)
    ELSE blob_path

\* a local directory, and the directory of that name inside it. The name of
\* a directory in itself is empty: os.path.join(d, "") is d.
Directory(d) == [dir |-> d, name |-> <<>>]
SubDirectory(d, name) == [dir |-> d, name |-> name]
\* the names "." and ".." are directories wherever they are looked up
DotNames == {<<".">>, <<".", ".">>}
\* download_blob lines 204-205 on a target that is a directory: os.path.exists
\* is true and os.remove raises
IsDirectory(ds, dest) ==
    \/ dest[2] \in DotNames
    \/ SubDirectory(dest[1], dest[2]) \in ds

\* local files are records of a directory, a name and the bytes
FileAt(fs, dest) == {f \in fs : f.dir = dest[1] /\ f.name = dest[2]}
\* the file at the target left in place
RemoveFile_kept(fs, dest) == fs
\* download_blob lines 204-205: os.remove of the target
RemoveFile(fs, dest) == fs \ FileAt(fs, dest)
WriteFile(fs, dest, data) ==
    RemoveFile(fs, dest) \cup {[dir |-> dest[1], name |-> dest[2], data |-> data]}

----------------------------------------------------------------------------
(* The operations of a store, called one at a time by one caller. *)

NoArgs == [op |-> "none", container |-> <<>>, blob_path |-> <<>>, obj |-> "",
           dir |-> "", fault |-> "none", numeric |-> TRUE,
           dest_existed |-> FALSE,
           dir_empty |-> FALSE, listed |-> FALSE, follows |-> None,
           existed |-> FALSE, requests |-> <<>>, repeat |-> FALSE,
           before |-> {}]

CanCall == pc = "idle" /\ ncalls < MaxCalls

ResetUpload ==
    /\ return_value' = None
    /\ attempts' = 0
    /\ retry_count' = 0
    /\ container_client' = None
    /\ tries' = 0
    /\ late_tries' = 0
    /\ issued' = None

\* a method that assigns None to self.account_key
StoreKept_key_dropped ==
    /\ account_key' = None
    /\ UNCHANGED <<trace_logging, connection_string, account_name>>

\* the methods of lines 45-309 assign to no field of self
StoreKept == UNCHANGED store_vars

\* create_container(container_name), called by the store's user
CreateContainerCall(container_name, fault) ==
    /\ CanCall
    /\ LET r == create_container(remote, container_name, fault)
       IN  /\ remote' = r.remote
           /\ result' = Traced(r.outcome)
    /\ call' = [NoArgs EXCEPT
           !.op = "create_container", !.container = container_name,
           !.fault = fault,
           !.existed = remote[container_name].exists,
           !.repeat = /\ call.op = "create_container"
                      /\ call.container = container_name
                      /\ result = Returned(container_name),
           !.requests = create_container(remote, container_name, fault).requests]
    /\ log_added' = LogEntry
    /\ ncalls' = ncalls + 1
    /\ ResetUpload
    /\ StoreKept
    /\ UNCHANGED <<dirs, files, pc, pure_vars>>

\* list_blobs(container_name): lines 85-92
ListBlobsCall(container_name, fault) ==
    /\ CanCall
    /\ LET r == create_container(remote, container_name, fault)
           client == Traced(r.outcome)
       IN  /\ remote' = r.remote
           /\ result' = Traced(
                  IF client.raised THEN Raised
                  ELSE IF client.value = None THEN Raised
                  ELSE IF fault = "list" THEN Raised
                  ELSE [raised |-> FALSE,
                        value |-> BlobNames(r.remote, container_name)])
    /\ call' = [NoArgs EXCEPT
           !.op = "list_blobs", !.container = container_name,
           !.fault = fault,
           !.existed = remote[container_name].exists,
           !.requests = create_container(remote, container_name, fault).requests]
    /\ log_added' = 2 * LogEntry
    /\ ncalls' = ncalls + 1
    /\ ResetUpload
    /\ StoreKept
    /\ UNCHANGED <<dirs, files, pc, pure_vars>>

\* upload_blob lines 127-131: the coercion of retry_count and create_container
UploadCall(container_name, obj_path, obj, retry, fault) ==
    /\ CanCall
    /\ call' = [NoArgs EXCEPT !.op = "upload_blob", !.container = container_name,
                              !.blob_path = obj_path, !.obj = obj,
                              !.numeric = retry.num,
                              !.listed = obj_path \in BlobNames(remote, container_name),
                              !.existed = remote[container_name].exists,
                              !.before = BlobsNamed(remote, container_name,
                                                    obj_path),
                              !.requests =
                                  IF retry.num
                                  THEN create_container(remote, container_name,
                                                        fault).requests
                                  ELSE <<>>]
    /\ ncalls' = ncalls + 1
    /\ return_value' = None
    /\ attempts' = 0
    /\ tries' = 0
    /\ late_tries' = 0
    /\ issued' = None
    /\ IF ~retry.num
       THEN \* int(retry_count) raises ValueError
            /\ retry_count' = 0
            /\ container_client' = None
            /\ remote' = remote
            /\ result' = Traced(Raised)
            /\ log_added' = LogEntry
            /\ pc' = "idle"
       ELSE LET r == create_container(remote, container_name, fault)
                client == Traced(r.outcome)
            IN  /\ retry_count' = retry.val
                /\ remote' = r.remote
                /\ IF client.raised
                   THEN /\ container_client' = None
                        /\ result' = Traced(Raised)
                        /\ log_added' = LogEntry
                        /\ pc' = "idle"
                   ELSE /\ container_client' = client.value
                        /\ result' = [raised |-> FALSE, value |-> None]
                        /\ log_added' = LogEntry
                        /\ pc' = "upload_loop"
    /\ StoreKept
    /\ UNCHANGED <<dirs, files, pure_vars>>

\* upload_blob lines 133-161: one turn of the while loop
UploadAttempt(fault, sig) ==
    /\ pc = "upload_loop"
    /\ upload_loop_test(return_value, attempts, retry_count)
    /\ IF ~(container_client # None /\ Truthy(call.blob_path) /\ call.obj # "")
       THEN \* line 135 is false: nothing is attempted
            /\ attempts' = attempts + 1
            /\ UNCHANGED <<remote, return_value, tries, late_tries, issued,
                           result, log_added, pc>>
       ELSE IF ~LocalFileExists(call.obj)
       THEN \* open() raises outside the try block
            /\ attempts' = attempts
            /\ tries' = tries + 1
            /\ late_tries' = late_tries
            /\ result' = Traced(Raised)
            /\ log_added' = log_added + LogEntry
            /\ pc' = "idle"
            /\ UNCHANGED <<remote, return_value, issued>>
       ELSE LET t == upload_try(remote, container_client, call.blob_path,
                                StreamData(call.obj, attempts), sig, fault)
            IN  /\ remote' = t.remote
                /\ return_value' = IF t.ok THEN t.uri ELSE return_value
                /\ issued' = t.sas
                /\ attempts' = attempts + 1
                /\ tries' = tries + 1
                /\ late_tries' = late_tries
                                   + (IF return_value # None THEN 1 ELSE 0)
                /\ log_added' = log_added + t.log
                /\ UNCHANGED <<result, pc>>
    /\ StoreKept
    /\ UNCHANGED <<dirs, files, call, retry_count,
                   container_client, ncalls, pure_vars>>

\* upload_blob line 163, once the loop test is false
UploadReturn ==
    /\ pc = "upload_loop"
    /\ ~upload_loop_test(return_value, attempts, retry_count)
    /\ result' = Traced(Returned(return_value))
    /\ log_added' = log_added + LogEntry
    /\ pc' = "idle"
    /\ StoreKept
    /\ UNCHANGED <<env_vars, upload_vars, call, ncalls, pure_vars>>

\* download_blob lines 187-223
DownloadCall(container_name, blob_path, local_directory, fault) ==
    /\ CanCall
    /\ LET dest == <<local_directory, LocalFileName(blob_path)>>
           made == dirs \cup {Directory(local_directory)}
           isdir == IsDirectory(made, dest)
           r == create_container(remote, container_name, fault)
           client == Traced(r.outcome)
           removed == RemoveFile(files, dest)
           listed == blob_path \in BlobNames(r.remote, container_name)
           blob == CHOOSE b \in BlobsNamed(r.remote, container_name, blob_path)
                       : TRUE
       IN  /\ dirs' = made
           /\ call' = [NoArgs EXCEPT
                  !.op = "download_blob", !.container = container_name,
                  !.blob_path = blob_path, !.dir = local_directory,
                  !.fault = fault,
                  !.dest_existed = FileAt(files, dest) # {},
                  !.dir_empty =
                      /\ {f \in files : f.dir = local_directory} = {}
                      /\ {d \in dirs : d.dir = local_directory}
                             \subseteq {Directory(local_directory)},
                  !.listed = listed,
                  !.existed = remote[container_name].exists,
                  !.requests = IF isdir THEN <<>> ELSE r.requests,
                  !.follows =
                      IF /\ call.op = "upload_blob"
                         /\ ~result.raised
                         /\ result.value # None
                         /\ call.container = container_name
                         /\ call.blob_path = blob_path
                      THEN FileData(call.obj) ELSE None]
           /\ IF isdir
              THEN \* os.remove of a directory raises
                   /\ files' = files
                   /\ remote' = remote
                   /\ result' = Traced(Raised)
                   /\ log_added' = LogEntry
              ELSE IF client.raised \/ client.value = None \/ fault = "list"
              THEN \* create_container raised, or gave None to call list_blobs on
                   /\ files' = removed
                   /\ remote' = r.remote
                   /\ result' = Traced(Raised)
                   /\ log_added' = 2 * LogEntry
              ELSE IF ~listed
              THEN /\ files' = removed
                   /\ remote' = r.remote
                   /\ result' = Traced(Returned(PyFalse))
                   /\ log_added' = 2 * LogEntry
              ELSE IF fault = "download"
              THEN /\ files' = removed
                   /\ remote' = r.remote
                   /\ result' = Traced(Raised)
                   /\ log_added' = 2 * LogEntry
              ELSE IF fault = "readinto"
              THEN \* the target was opened for writing and the copy failed
                   /\ files' = WriteFile(removed, dest, <<>>)
                   /\ remote' = r.remote
                   /\ result' = Traced(Raised)
                   /\ log_added' = 2 * LogEntry
              ELSE /\ files' = WriteFile(removed, dest, blob.data)
                   /\ remote' = r.remote
                   /\ result' = Traced(Returned(PyTrue))
                   /\ log_added' = 2 * LogEntry
    /\ ncalls' = ncalls + 1
    /\ ResetUpload
    /\ StoreKept
    /\ UNCHANGED <<pc, pure_vars>>

\* list_containers(get_public_access): lines 60-73
ListContainersCall(get_public_access, fault) ==
    /\ CanCall
    /\ result' = Traced(list_containers(remote, get_public_access, fault))
    /\ call' = [NoArgs EXCEPT !.op = "list_containers", !.fault = fault]
    /\ log_added' = LogEntry
    /\ ncalls' = ncalls + 1
    /\ ResetUpload
    /\ StoreKept
    /\ UNCHANGED <<env_vars, pc, pure_vars>>

\* generate_sas_token_blob(container_name, blob_name), called by the store's
\* user
GenerateSasBlobCall(container_name, blob_name, sig, fault) ==
    /\ CanCall
    /\ result' = Traced(generate_sas_token_blob(container_name, blob_name, sig,
                                                fault))
    /\ call' = [NoArgs EXCEPT !.op = "generate_sas_token_blob",
                              !.container = container_name, !.fault = fault]
    /\ log_added' = LogEntry
    /\ ncalls' = ncalls + 1
    /\ ResetUpload
    /\ StoreKept
    /\ UNCHANGED <<env_vars, pc, pure_vars>>

\* generate_sas_token_container(container_name): the constructor does not
\* wrap this method
GenerateSasContainerCall(container_name, sig, fault) ==
    /\ CanCall
    /\ result' = generate_sas_token_container(container_name, sig, fault)
    /\ call' = [NoArgs EXCEPT !.op = "generate_sas_token_container",
                              !.container = container_name, !.fault = fault]
    /\ log_added' = 0
    /\ ncalls' = ncalls + 1
    /\ ResetUpload
    /\ StoreKept
    /\ UNCHANGED <<env_vars, pc, pure_vars>>

\* generate_uri(container, blob_name, sas_token), called by the store's user
GenerateUriCall(container, blob_name, sas_token) ==
    /\ CanCall
    /\ result' = Traced(Returned(generate_uri(container, blob_name, sas_token)))
    /\ call' = [NoArgs EXCEPT !.op = "generate_uri"]
    /\ log_added' = LogEntry
    /\ ncalls' = ncalls + 1
    /\ ResetUpload
    /\ StoreKept
    /\ UNCHANGED <<env_vars, pc, pure_vars>>

----------------------------------------------------------------------------
(* The store and its environment. *)

\* connection strings a store is built from: a shared-key one, and one that
\* carries a shared access signature and so neither AccountName nor AccountKey
KeyConnection == <<"A", "c", "c", "o", "u", "n", "t", "N", "a", "m", "e", "=", "a", "c", "m", "e", ";", "A", "c", "c", "o", "u", "n", "t", "K", "e", "y", "=", "k">>
SasConnection == <<"S", "h", "a", "r", "e", "d", "A", "c", "c", "e", "s", "s", "S", "i", "g", "n", "a", "t", "u", "r", "e", "=", "s">>
StoreConnections == {KeyConnection, SasConnection}

NotRun == [done |-> FALSE, value |-> None]

\* StorageUtils.__init__
StoreInit(conn, trace) ==
    /\ trace_logging = trace
    /\ connection_string = conn
    /\ account_name = parse_connection_string(conn)[1]
    /\ account_key = parse_connection_string(conn)[2]

IdleInit ==
    /\ pc = "idle"
    /\ call = NoArgs
    /\ result = Returned(None)
    /\ return_value = None
    /\ attempts = 0
    /\ retry_count = 0
    /\ container_client = None
    /\ tries = 0
    /\ late_tries = 0
    /\ issued = None
    /\ log_added = 0
    /\ ncalls = 0

EmptyAccount == [c \in Containers |-> NoContainer]
UsedAccount ==
    [EmptyAccount EXCEPT ![<<"c">>] =
        [exists |-> TRUE, blobs |-> {[name |-> <<"a">>, data |-> <<"0">>]}]]

Init ==
    /\ \E conn \in StoreConnections, trace \in BOOLEAN : StoreInit(conn, trace)
    /\ remote = UsedAccount
    /\ dirs = {}
    /\ files = {}
    /\ IdleInit
    /\ input = None
    /\ output = NotRun

Next ==
    \/ \E c \in Containers, f \in CreateFaults : CreateContainerCall(c, f)
    \/ \E c \in Containers, f \in LookupFaults \cup {"list"} : ListBlobsCall(c, f)
    \/ \E c \in Containers, p \in StorePaths, o \in Objs, n \in RetryArgs,
          f \in LookupFaults : UploadCall(c, p, o, n, f)
    \/ \E f \in AttemptFaults, sig \in Sigs : UploadAttempt(f, sig)
    \/ UploadReturn
    \/ \E c \in Containers, p \in BlobPaths, d \in LocalDirs,
          f \in LookupFaults : DownloadCall(c, p, d, f)
    \/ \E a \in BOOLEAN, f \in {"none", "container"} : ListContainersCall(a, f)
    \/ \E c \in Containers, sig \in Sigs, f \in SasFaults :
          GenerateSasBlobCall(c, <<"a">>, sig, f)
    \/ \E c \in Containers, sig \in Sigs, f \in SasFaults :
          GenerateSasContainerCall(c, sig, f)
    \/ \E c \in Containers, p \in StorePaths, t \in Tokens :
          GenerateUriCall(c, p, t)

Spec == Init /\ [][Next]_vars

----------------------------------------------------------------------------
(* Token generation on its own, on stores built from connection strings    *)
(* with both credentials, with neither, and with a name and no key.        *)

NameOnlyConnection == <<"A", "c", "c", "o", "u", "n", "t", "N", "a", "m", "e", "=", "a", "c", "m", "e">>
EmptyNameConnection == <<"A", "c", "c", "o", "u", "n", "t", "N", "a", "m", "e", "=", ";", "A", "c", "c", "o", "u", "n", "t", "K", "e", "y", "=", "k">>
SasStoreConnections ==
    StoreConnections \cup {NameOnlyConnection, EmptyNameConnection}

InitSas ==
    /\ \E conn \in SasStoreConnections, trace \in BOOLEAN : StoreInit(conn, trace)
    /\ remote = UsedAccount
    /\ dirs = {}
    /\ files = {}
    /\ IdleInit
    /\ input = None
    /\ output = NotRun

NextSas ==
    \/ \E c \in Containers, p \in StorePaths, sig \in Sigs, f \in SasFaults :
          GenerateSasBlobCall(c, p, sig, f)
    \/ \E c \in Containers, sig \in Sigs, f \in SasFaults :
          GenerateSasContainerCall(c, sig, f)

SpecSas == InitSas /\ [][NextSas]_vars

----------------------------------------------------------------------------
(* upload_blob, download_blob and list_blobs over every blob path, on a     *)
(* store with an account key, with a local directory that is absent or     *)
(* holds a directory named "a".                                            *)

LocalStarts == {{}, {Directory("dl"), SubDirectory("dl", <<"a">>)}}

InitDownload ==
    /\ \E trace \in BOOLEAN : StoreInit(KeyConnection, trace)
    /\ remote = UsedAccount
    /\ dirs \in LocalStarts
    /\ files = {}
    /\ IdleInit
    /\ input = None
    /\ output = NotRun

\* one attempt for each upload, of a file that exists, which works or fails
\* at the upload request
OneTry == [num |-> TRUE, val |-> 1]

NextDownload ==
    \/ \E c \in Containers, p \in BlobPaths, o \in {"f1", "f2"} :
          UploadCall(c, p, o, OneTry, "none")
    \/ \E f \in {"none", "upload"} : UploadAttempt(f, <<"s">>)
    \/ UploadReturn
    \/ \E c \in Containers, p \in BlobPaths, d \in LocalDirs,
          f \in DownloadFaults : DownloadCall(c, p, d, f)
    \/ \E c \in Containers, f \in LookupFaults \cup {"list"} : ListBlobsCall(c, f)

SpecDownload == InitDownload /\ [][NextDownload]_vars

----------------------------------------------------------------------------
(* The parsing functions on their own: the argument is drawn in the        *)
(* initial state and one action applies the function to it.                *)

\* all sequences over `alphabet` of length 0..n
SeqsUpTo(alphabet, n) == UNION {[1..k -> alphabet] : k \in 0..n}

StoreAtRest ==
    /\ StoreInit(KeyConnection, FALSE)
    /\ remote = UsedAccount
    /\ dirs = {}
    /\ files = {}
    /\ IdleInit

\* fields of a connection string: the two the parser reads, each with two
\* values, one with an empty value, and fields with other keys
ConnFields == {
    <<"A", "c", "c", "o", "u", "n", "t", "N", "a", "m", "e", "=", "a">>,
    <<"A", "c", "c", "o", "u", "n", "t", "N", "a", "m", "e", "=", "z">>,
    <<"A", "c", "c", "o", "u", "n", "t", "K", "e", "y", "=", "k">>,
    <<"A", "c", "c", "o", "u", "n", "t", "K", "e", "y", "=", "q">>,
    <<"A", "c", "c", "o", "u", "n", "t", "N", "a", "m", "e", "=">>,
    <<"S", "u", "f", "f", "i", "x", "=", "c">>,
    <<"D", "e", "v", "A", "c", "c", "o", "u", "n", "t", "N", "a", "m", "e", "=", "d">>}

RECURSIVE JoinFields(_)
JoinFields(fields) ==
    IF Len(fields) = 0 THEN <<>>
    ELSE IF Len(fields) = 1 THEN fields[1]
    ELSE fields[1] \o <<";">> \o JoinFields(Tail(fields))

ConnInputs ==
    {JoinFields(fields) \o tail :
        fields \in SeqsUpTo(ConnFields, MaxFields), tail \in {<<>>, <<";">>}}

InitConn ==
    /\ StoreAtRest
    /\ input \in ConnInputs
    /\ output = NotRun

ParseConnection ==
    /\ ~output.done
    /\ output' = [done |-> TRUE, value |-> parse_connection_string(input)]
    /\ UNCHANGED <<store_vars, env_vars, upload_vars, call_vars, input>>

NextConn == ParseConnection

SpecConn == InitConn /\ [][NextConn]_vars

\* URIs: what precedes the authority, then up to MaxBody characters
UrlPrefixes == {<<>>, <<"h", ":", "/">>, <<"h", ":", "/", "/">>, <<"?", ":", "/", "/">>, <<":", "/", "/">>}
\* longer URIs: directories in the blob path, dots in the file name, a token
UrlExamples == {
    <<"h", ":", "/", "/", "a", ".", "b", "/", "l", "/", "d", "/", "r", ".", "t", ".", "c", "?", "s", "?", "t">>,
    <<"h", ":", "/", "/", "a", ".", "b", "/", "l", "/", "d", ".", "e", "/", "r">>}
UrlInputs ==
    {None} \cup UrlExamples \cup
    {prefix \o body : prefix \in UrlPrefixes,
                      body \in SeqsUpTo({"a", ".", "/", "?"}, MaxBody)}

InitUrl ==
    /\ StoreAtRest
    /\ input \in UrlInputs
    /\ output = NotRun

\* parse_blob_url(None): `if blob_uri` is false
ParseUrl ==
    /\ ~output.done
    /\ output' = [done |-> TRUE, value |-> parse_blob_url(input)]
    /\ UNCHANGED <<store_vars, env_vars, upload_vars, call_vars, input>>

NextUrl == ParseUrl

SpecUrl == InitUrl /\ [][NextUrl]_vars

\* formatter arguments: container, blob path and token
UriAccounts == {None, <<"a", "c", "m", "e">>, <<"a", "/", "b">>}
UriContainers == SeqsUpTo({"c", "/", "?"}, 2)
UriPaths == SeqsUpTo({"b", "/", "?", "."}, MaxPath)
UriTokens == {<<>>, <<"?">>, <<"?", "s">>, <<"s">>, <<"?", "s", "?", "t">>}

InitUri ==
    /\ trace_logging = FALSE
    /\ connection_string = KeyConnection
    /\ account_name \in UriAccounts
    /\ account_key = <<"k">>
    /\ remote = UsedAccount
    /\ dirs = {}
    /\ files = {}
    /\ IdleInit
    /\ input \in {[container |-> c, blob_path |-> b, token |-> t] :
                     c \in UriContainers, b \in UriPaths, t \in UriTokens}
    /\ output = NotRun

\* parse_blob_url(generate_uri(container, blob_path, token))
FormatThenParse ==
    /\ ~output.done
    /\ LET uri == generate_uri(input.container, input.blob_path, input.token)
       IN  output' = [done |-> TRUE, uri |-> uri, value |-> parse_blob_url(uri)]
    /\ UNCHANGED <<store_vars, env_vars, upload_vars, call_vars, input>>

NextUri == FormatThenParse

SpecUri == InitUri /\ [][NextUri]_vars

----------------------------------------------------------------------------
(* dailyprocess.py, lines 84-150: the uploads of the daily run. `input` is  *)
(* execution_details, the scripts that produced files, `files` holds the   *)
(* temp directory with the files they wrote, and `output` is the state of  *)
(* the run.                                                                *)

\* upload_blob's default retry_count
DefaultRetry == 3

\* upload_blob lines 133-161 for a local file that can be opened, from the
\* attempt numbered `n`: the value returned and the account
RECURSIVE upload_attempts(_, _, _, _, _, _, _)
upload_attempts(rem, container_name, obj_path, data, n, plan, sig) ==
    IF ~upload_loop_test(None, n, DefaultRetry)
    THEN [outcome |-> Returned(None), remote |-> rem]
    ELSE LET t == upload_try(rem, container_name, obj_path, data, sig,
                             plan[n + 1])
         IN  IF t.ok
             THEN [outcome |-> Returned(t.uri), remote |-> t.remote]
             ELSE upload_attempts(t.remote, container_name, obj_path, data,
                                  n + 1, plan, sig)

\* StorageUtils.upload_blob(container_name, obj_path, obj) as the daily run
\* calls it, on a store built with trace_logging=False
upload_blob(rem, container_name, obj_path, readable, data, cfault, plan, sig) ==
    LET r == create_container(rem, container_name, cfault)
    IN  IF r.outcome.raised THEN [outcome |-> Raised, remote |-> r.remote]
        ELSE IF ~Truthy(obj_path)
        THEN [outcome |-> Returned(None), remote |-> r.remote]
        ELSE IF ~readable THEN [outcome |-> Raised, remote |-> r.remote]
        ELSE upload_attempts(r.remote, container_name, obj_path, data, 0, plan,
                             sig)

\* the faults of the attempts of one upload_blob: none, the same fault in
\* every attempt, or a failed upload request in the first attempt alone
FaultPlans ==
    {[k \in 1..DefaultRetry |-> f] : f \in AttemptFaults}
        \cup {[k \in 1..DefaultRetry |-> IF k = 1 THEN "upload" ELSE "none"]}

\* app_configuration.storage.container and context.temp_directory
DailyContainer == <<"c">>
TempDirectory == "tmp"
CompleteName == <<".", "c", "o", "m", "p", "l", "e", "t", "e">>
COMPLETE_TO_ROOT == TRUE

\* os.path.split(local)[1] of the files the scripts produced: f1 and f2 are
\* the CSV and the PARQUET file of one output name, f3 the CSV file of
\* another
BaseName(local) ==
    IF local = "f1" THEN <<"f", "1">>
    ELSE IF local = "f2" THEN <<"f", "2">>
    ELSE <<"f", "3">>

\* the clock of the run: the day, which can change once during it
Days == {"1", "2"}

\* datetime.utcnow().strftime(pattern): "%" stands for a day directive
RECURSIVE strftime(_, _)
strftime(pattern, now) ==
    IF pattern = <<>> THEN <<>>
    ELSE (IF Head(pattern) = "%" THEN <<now>> ELSE <<Head(pattern)>>)
             \o strftime(Tail(pattern), now)

\* the test of line 95 left out
path_is_new_always(paths, path) == TRUE

\* line 95: blob_name_path not in blob_paths_used
path_is_new(paths, path) == \A k \in 1..Len(paths) : paths[k] # path

\* ",".join(blob_paths_used)
RECURSIVE JoinPaths(_)
JoinPaths(paths) ==
    IF Len(paths) = 0 THEN <<>>
    ELSE IF Len(paths) = 1 THEN paths[1]
    ELSE paths[1] \o <<",">> \o JoinPaths(Tail(paths))

\* script["blob_name"] of the configuration
DailyBlobNames == {<<"p">>, <<"p", "/">>, <<"%", "/">>, <<>>}
\* storage.format of the configuration, one for all the scripts of a run
DailyFormats == {"csv", "parquet", "both"}
\* execute_sql's output_files for a format: the PARQUET file, then the CSV
\* file. The output name is the script's name up to its first dot, so two
\* scripts can write, and list, the same file.
DailyContents(format) ==
    IF format = "csv" THEN {<<"f1">>, <<"f3">>}
    ELSE IF format = "parquet" THEN {<<"f2">>}
    ELSE {<<"f2", "f1">>}
DailyScripts(format) ==
    [blob_name : DailyBlobNames, content : DailyContents(format)]
\* execution_details after the scripts ran, in the order of its keys
DailyDetails ==
    UNION {SeqsUpTo(DailyScripts(format), MaxScripts) : format \in DailyFormats}

\* the files the scripts wrote that execution_details lists
ListedFiles(details) ==
    {[dir |-> TempDirectory, name |-> BaseName(details[a].content[x]),
      data |-> FileData(details[a].content[x])] :
        <<a, x>> \in {<<a, x>> \in (1..Len(details)) \X (1..2) :
                          x <= Len(details[a].content)}}

\* files of the temp directory that no entry lists: a file of an earlier run
\* in a directory line 17 found in place, the PARQUET file of a script whose
\* CSV write failed, the .complete of an earlier run that crashed
StaleFiles ==
    {[dir |-> TempDirectory, name |-> <<"o", "l", "d">>, data |-> <<"9">>],
     [dir |-> TempDirectory, name |-> BaseName("f2"), data |-> FileData("f2")],
     [dir |-> TempDirectory, name |-> CompleteName, data |-> <<"o">>]}

\* the temp directory after the scripts ran: the listed files, which the
\* scripts wrote over any file of their name, and the files left there
TempFiles(details, left) ==
    ListedFiles(details)
        \cup {f \in left : \A g \in ListedFiles(details) : g.name # f.name}

DailyStart ==
    [pc |-> "scripts", now |-> "1", i |-> 0, j |-> 0,
     blob_name_path |-> <<>>, blob_paths_used |-> <<>>,
     uploads |-> <<>>, marker_calls |-> 0, markers |-> 0]

InitDaily ==
    /\ \E conn \in StoreConnections : StoreInit(conn, FALSE)
    /\ remote = UsedAccount
    /\ dirs = {Directory(TempDirectory)}
    /\ input \in DailyDetails
    /\ \E left \in SUBSET StaleFiles : files = TempFiles(input, left)
    /\ IdleInit
    /\ output = DailyStart

DailyFrame == UNCHANGED <<store_vars, upload_vars, call_vars, input>>

\* the clock passes midnight
DailyTick ==
    /\ output.pc \in {"scripts", "files"}
    /\ output.now = "1"
    /\ output' = [output EXCEPT !.now = "2"]
    /\ UNCHANGED env_vars
    /\ DailyFrame

\* lines 87-98: the next script of execution_details, and its blob path
DailyNextScript ==
    /\ output.pc = "scripts"
    /\ IF output.i = Len(input)
       THEN output' = [output EXCEPT !.pc = "complete"]
       ELSE LET blob_name == strftime(input[output.i + 1].blob_name, output.now)
                blob_name_path == IF blob_name[Len(blob_name)] # "/"
                                  THEN blob_name \o <<"/">> ELSE blob_name
            IN  IF blob_name = <<>>
                THEN \* blob_name_path[-1] raises IndexError
                     output' = [output EXCEPT !.pc = "crashed"]
                ELSE output' = [output EXCEPT
                         !.pc = "files", !.i = @ + 1, !.j = 0,
                         !.blob_name_path = blob_name_path,
                         !.blob_paths_used =
                             IF path_is_new(@, blob_name_path)
                             THEN Append(@, blob_name_path) ELSE @]
    /\ UNCHANGED env_vars
    /\ DailyFrame

\* lines 99-109: the upload of the next file of the script, or the end of
\* its files
DailyUploadFile(cfault, plan, sig) ==
    /\ output.pc = "files"
    /\ LET content == input[output.i].content
       IN  IF output.j = Len(content)
           THEN /\ output' = [output EXCEPT !.pc = "scripts"]
                /\ remote' = remote
           ELSE LET local == content[output.j + 1]
                    blob == output.blob_name_path \o BaseName(local)
                    found == FileAt(files, <<TempDirectory, BaseName(local)>>)
                    u == upload_blob(remote, DailyContainer, blob,
                                     found # {},
                                     (CHOOSE f \in found : TRUE).data,
                                     cfault, plan, sig)
                IN  /\ remote' = u.remote
                    /\ output' =
                          IF u.outcome.raised
                          THEN [output EXCEPT !.pc = "crashed"]
                          ELSE [output EXCEPT
                                   !.j = @ + 1,
                                   !.uploads = Append(@, blob)]
    /\ UNCHANGED <<dirs, files>>
    /\ DailyFrame

\* lines 116-127: the .complete file written when a blob path was used
DailyWriteComplete ==
    /\ output.pc = "complete"
    /\ IF Len(output.blob_paths_used) # 0
       THEN /\ files' = WriteFile(files, <<TempDirectory, CompleteName>>,
                                  JoinPaths(output.blob_paths_used))
            /\ output' = [output EXCEPT !.pc = "markers", !.i = 0]
       ELSE /\ files' = files
            /\ output' = [output EXCEPT !.pc = "cleanup"]
    /\ UNCHANGED <<remote, dirs>>
    /\ DailyFrame

\* lines 130-142: a .complete uploaded for the next blob path used
DailyUploadComplete(cfault, plan, sig) ==
    /\ output.pc = "markers"
    /\ IF output.i = Len(output.blob_paths_used)
       THEN /\ output' = [output EXCEPT !.pc = "cleanup"]
            /\ remote' = remote
       ELSE LET comp_content == output.blob_paths_used[output.i + 1]
                comp_blob == IF COMPLETE_TO_ROOT THEN CompleteName
                             ELSE comp_content \o CompleteName
                found == FileAt(files, <<TempDirectory, CompleteName>>)
                u == upload_blob(remote, DailyContainer, comp_blob,
                                 found # {},
                                 (CHOOSE f \in found : TRUE).data,
                                 cfault, plan, sig)
            IN  /\ remote' = u.remote
                /\ output' =
                      IF u.outcome.raised
                      THEN [output EXCEPT !.pc = "crashed",
                                          !.marker_calls = @ + 1]
                      ELSE [output EXCEPT !.i = @ + 1,
                                          !.marker_calls = @ + 1,
                                          !.markers = @ + 1]
    /\ UNCHANGED <<dirs, files>>
    /\ DailyFrame

\* lines 144-150: shutil.rmtree of the temp directory
DailyCleanup ==
    /\ output.pc = "cleanup"
    /\ output' = [output EXCEPT !.pc = "done"]
    /\ dirs' = {d \in dirs : d.dir # TempDirectory}
    /\ files' = {f \in files : f.dir # TempDirectory}
    /\ remote' = remote
    /\ DailyFrame

\* the signature of the tokens of the run, which the run only prints
DailySig == <<"s">>

\* the container of the run exists, so that no create request is sent
NextDaily ==
    \/ DailyTick
    \/ DailyNextScript
    \/ \E f \in LookupFaults, plan \in FaultPlans :
          DailyUploadFile(f, plan, DailySig)
    \/ DailyWriteComplete
    \/ \E f \in LookupFaults, plan \in FaultPlans :
          DailyUploadComplete(f, plan, DailySig)
    \/ DailyCleanup

SpecDaily == InitDaily /\ [][NextDaily]_vars

\* blob paths of download_blob, with both separators
NameInputs == SeqsUpTo({"a", "/", "\\"}, MaxName)

InitName ==
    /\ StoreAtRest
    /\ input \in NameInputs
    /\ output = NotRun

\* download_blob lines 196-201: the file name joined to local_directory
ResolveLocalName ==
    /\ ~output.done
    /\ output' = [done |-> TRUE, value |-> LocalFileName(input)]
    /\ UNCHANGED <<store_vars, env_vars, upload_vars, call_vars, input>>

NextName == ResolveLocalName

SpecName == InitName /\ [][NextName]_vars

----------------------------------------------------------------------------
(* Claims about upload_blob, under Spec. *)

UploadDone == pc = "idle" /\ call.op = "upload_blob"
DownloadDone == pc = "idle" /\ call.op = "download_blob"
GaveUri == ~result.raised /\ result.value # None

\* the upload could attempt: a container client, a blob path, a local file
\* that exists
CouldAttempt ==
    /\ container_client # None
    /\ Truthy(call.blob_path)
    /\ LocalFileExists(call.obj)

\* C1: an upload_blob whose attempts all fail in the try block makes exactly
\* retry_count attempts, one per turn of the loop, and returns None; no
\* attempt is made once an attempt has produced a URI, and an upload that
\* returns a URI made at most retry_count attempts, the last one successful.
C1_ExactlyRetryCountAttempts ==
    /\ late_tries = 0
    /\ tries <= attempts + 1
    /\ (pc = "upload_loop" /\ CouldAttempt) => tries = attempts
    /\ (UploadDone /\ call.numeric /\ CouldAttempt /\ return_value = None)
          => /\ tries = retry_count
             /\ attempts = retry_count
             /\ result = Returned(None)
    /\ (UploadDone /\ return_value # None)
          => /\ tries = attempts
             /\ attempts <= retry_count
             /\ result = Returned(return_value)

C1_Witness ==
    /\ UploadDone /\ call.numeric /\ CouldAttempt
    /\ retry_count = 2 /\ tries = 2
    /\ result = Returned(None)

\* C2: for an integer retry_count no exception escapes upload_blob: the call
\* ends with a URI or None.
C2_NoExceptionEscapes ==
    (UploadDone /\ call.numeric) => ~result.raised

\* C3: after an upload_blob that returned a URI the container holds exactly
\* one object at the path, and its bytes are those of the call's local file,
\* whether or not an object was there before the call.
C3_OverwriteLeavesOneObject ==
    (UploadDone /\ GaveUri)
        => BlobsNamed(remote, call.container, call.blob_path)
               = {[name |-> call.blob_path, data |-> FileData(call.obj)]}

C3_Witness ==
    /\ UploadDone /\ GaveUri /\ call.listed
    /\ ncalls = 2
    /\ attempts = 2

\* C7: a URI returned by upload_blob is the account's blob URI of the
\* container and path followed by the SAS token issued in that attempt, which
\* begins with "?".
C7_UriCarriesIssuedToken ==
    (UploadDone /\ GaveUri)
        => /\ issued # None
           /\ Head(issued) = "?"
           /\ result.value = UriScheme \o Format(account_name) \o UriDomain
                  \o call.container \o <<"/">> \o call.blob_path \o issued

\* a step that is one call of create_container
CreateContainerStep ==
    /\ pc = "idle"
    /\ ncalls' = ncalls + 1
    /\ call'.op = "create_container"

\* C12: every create_container(name) lists the containers first and sends a
\* create request only when the name is missing; when its requests succeed it
\* returns the container's reference and the container exists; it leaves the
\* blobs of every container and every other container as they were; and a
\* call that follows a create_container of the same name that returned a
\* reference sends no create request.
C12_CreateContainerIdempotent ==
    [][CreateContainerStep =>
        LET name == call'.container
            both == ListRequest \o CreateRequest
        IN  /\ call'.requests \in {ListRequest, both}
            /\ call'.requests = both => ~remote[name].exists
            /\ call'.fault = "none" =>
                   /\ result' = Returned(name)
                   /\ remote'[name].exists
                   /\ call'.requests = both <=> ~remote[name].exists
            /\ \A c \in Containers : remote'[c].blobs = remote[c].blobs
            /\ \A c \in Containers \ {name} : remote'[c] = remote[c]
            /\ (/\ call.op = "create_container"
                /\ call.container = name
                /\ result = Returned(name))
                   => call'.requests = ListRequest]_vars

\* a second create_container of a name the first call created
C12_Witness ==
    /\ pc = "idle"
    /\ call.op = "create_container"
    /\ call.container = <<"d">>
    /\ call.repeat
    /\ call.existed
    /\ call.requests = ListRequest
    /\ result = Returned(<<"d">>)
    /\ remote[<<"d">>] = NewContainer

\* C14: an upload_blob given a retry_count that int() refuses raises an
\* error to its caller, having sent no request to the service for the
\* container and having opened no local file for an attempt.
C14_NonNumericFailsFast ==
    (UploadDone /\ ~call.numeric)
        => /\ result.raised
           /\ call.requests = <<>>
           /\ tries = 0
           /\ attempts = 0

\* C18: when upload_blob returns None the blobs at its container and path
\* are the ones that were there before the call: none deleted, none replaced,
\* none stored.
C18_NoPartialSuccess ==
    (UploadDone /\ result = Returned(None))
        => BlobsNamed(remote, call.container, call.blob_path) = call.before

\* the operations the constructor wraps when trace_logging is set
WrappedOps == {"list_containers", "list_blobs", "create_container",
               "upload_blob", "download_blob", "generate_sas_token_blob",
               "generate_uri"}

CallDone == pc = "idle" /\ call.op \in WrappedOps

\* outcomes of the operations of a store built with trace_logging=False: a
\* retry_count that int() refuses raises, a download_blob raises or gives a
\* boolean, a create_container or list_containers whose listing fails raises,
\* a generate_sas_token_blob without an account key raises, and an upload_blob
\* gives a URI only when it was issued a token
PlainOutcomes ==
    /\ (UploadDone /\ ~call.numeric) => result.raised
    /\ DownloadDone => (result.raised \/ result.value \in {PyTrue, PyFalse})
    /\ (/\ CallDone
        /\ call.op \in {"create_container", "list_containers"}
        /\ call.fault = "container") => result.raised
    /\ (/\ CallDone
        /\ call.op = "generate_sas_token_blob"
        /\ account_key = None) => result.raised
    /\ (UploadDone /\ GaveUri) => issued # None

\* the same, of the untraced store alone
PlainOutcomesUntraced == ~trace_logging => PlainOutcomes

\* C19: a store built with trace_logging=True gives its caller the outcomes
\* the store built with trace_logging=False gives, which raises where
\* PlainOutcomes says and returns what it says, and every call of a wrapped
\* operation on it adds a log entry, which no call on the untraced store does.
C19_TraceTransparent ==
    /\ PlainOutcomes
    /\ CallDone => IF trace_logging THEN log_added >= 1 ELSE log_added = 0

\* a step that begins a call of a method
CallStep == ncalls' = ncalls + 1

\* C15: account_name and account_key are what the constructor parsed from
\* connection_string, no step of any operation changes trace_logging,
\* connection_string, account_name or account_key, whether the operation
\* succeeds or fails, and every call starts from fresh locals, nothing of an
\* earlier call being kept.
C15_StoreFieldsFixed ==
    /\ [](<<account_name, account_key>>
              = parse_connection_string(connection_string))
    /\ [][/\ store_vars' = store_vars
          /\ CallStep => /\ return_value' = None
                          /\ attempts' = 0
                          /\ tries' = 0
                          /\ issued' = None]_vars

\* two calls made, the second an upload that raised, the first having given
\* its result, on a store that still holds the name and the key
C15_Witness ==
    /\ pc = "idle"
    /\ ncalls = 2
    /\ call.op = "upload_blob"
    /\ result.raised
    /\ remote[<<"d">>].exists
    /\ <<account_name, account_key>> = <<<<"a", "c", "m", "e">>, <<"k">>>>

----------------------------------------------------------------------------
(* Claims about token generation, under SpecSas. *)

SasDone ==
    /\ pc = "idle"
    /\ call.op \in {"generate_sas_token_blob", "generate_sas_token_container"}

\* C13: generate_sas_token_blob and generate_sas_token_container on a store
\* whose account_name or account_key is None raise an error to the caller,
\* and a call that returns gives a token that begins with "?", which happens
\* only when both credentials are set.
C13_TokenNeedsBothCredentials ==
    SasDone =>
        /\ (account_name = None \/ account_key = None) => result.raised
        /\ ~result.raised =>
               /\ account_name # None
               /\ account_key # None
               /\ result.value # None
               /\ Head(result.value) = "?"

----------------------------------------------------------------------------
(* Claims about parse_connection_string, under SpecConn. *)

\* C8: a string without the text AccountName= gives (None, None), with or
\* without AccountKey= in it, and a key is never returned without a name.
C8_NoNameNoCredentials ==
    output.done =>
        /\ ~Contains(input, ACCOUNT_NAME) => output.value = <<None, None>>
        /\ output.value[2] # None => output.value[1] # None

C8_Witness ==
    /\ output.done
    /\ Contains(input, ACCOUNT_KEY)
    /\ ~Contains(input, ACCOUNT_NAME)
    /\ output.value = <<None, None>>

\* the fields of a connection string, as the claim reads it: the texts
\* between semicolons, each a key, "=", and a value
RECURSIVE SplitFields(_)
SplitFields(s) ==
    IF \E i \in 1..Len(s) : s[i] = ";"
    THEN LET i == CHOOSE k \in 1..Len(s) :
                      s[k] = ";" /\ \A j \in 1..(k - 1) : s[j] # ";"
         IN  <<SubSeq(s, 1, i - 1)>> \o SplitFields(SubSeq(s, i + 1, Len(s)))
    ELSE <<s>>

HasKey(field, key) ==
    /\ Len(field) > Len(key)
    /\ SubSeq(field, 1, Len(key)) = key
    /\ field[Len(key) + 1] = "="

FieldValue(field, key) == SubSeq(field, Len(key) + 2, Len(field))

NameKey == <<"A", "c", "c", "o", "u", "n", "t", "N", "a", "m", "e">>
KeyKey == <<"A", "c", "c", "o", "u", "n", "t", "K", "e", "y">>

HasField(s, key) == \E i \in DOMAIN SplitFields(s) : HasKey(SplitFields(s)[i], key)

\* the value of the first field whose key is `key`
FirstValue(s, key) ==
    LET fields == SplitFields(s)
        i == CHOOSE k \in DOMAIN fields :
                 /\ HasKey(fields[k], key)
                 /\ \A j \in 1..(k - 1) : ~HasKey(fields[j], key)
    IN  FieldValue(fields[i], key)

\* the string has both fields, the first AccountName one with a value
ValidConnection(s) ==
    /\ HasField(s, NameKey)
    /\ HasField(s, KeyKey)
    /\ FirstValue(s, NameKey) # <<>>

\* the first place the text occurs in the string is the start of a field
FirstOccurrenceStartsField(s, text) ==
    \A i \in 0..Len(s) :
        (OccursAt(s, text, i) /\ \A j \in 0..(i - 1) : ~OccursAt(s, text, j))
            => (i = 0 \/ s[i] = ";")

\* C9 as claimed: every string with the fields AccountName=X and AccountKey=Y,
\* in any order and among any other fields, parses to (X, Y), the first
\* occurrence of a key winning.
C9_RecoversAmongAnyFields ==
    (output.done /\ ValidConnection(input))
        => output.value = <<FirstValue(input, NameKey), FirstValue(input, KeyKey)>>

\* C9: the same, when the text AccountName= and the text AccountKey= each
\* occur first at the start of a field.
C9_RecoversNameAndKey ==
    (/\ output.done
     /\ ValidConnection(input)
     /\ FirstOccurrenceStartsField(input, ACCOUNT_NAME)
     /\ FirstOccurrenceStartsField(input, ACCOUNT_KEY))
        => output.value = <<FirstValue(input, NameKey), FirstValue(input, KeyKey)>>

\* the key before the name, the name given twice, and the last field with no
\* semicolon after it
C9_Witness ==
    /\ output.done
    /\ input = <<"A", "c", "c", "o", "u", "n", "t", "K", "e", "y", "=", "q", ";", "A", "c", "c", "o", "u", "n", "t", "N", "a", "m", "e", "=", "a", ";", "A", "c", "c", "o", "u", "n", "t", "N", "a", "m", "e", "=", "z">>
    /\ output.value = <<<<"a">>, <<"q">>>>

----------------------------------------------------------------------------
(* Claims about parse_blob_url, under SpecUrl. *)

MapFields == {"account", "container", "blob_path", "file_name",
              "file_extension", "sas"}

\* 0-based position of the first "?" of u, or Len(u) without one
QueryStart(u) ==
    IF \E q \in 1..Len(u) : u[q] = "?"
    THEN (CHOOSE q \in 1..Len(u) : u[q] = "?" /\ \A k \in 1..(q - 1) : u[k] # "?") - 1
    ELSE Len(u)

\* the claim's test, on positions of u: a "://", then before the first "?" an
\* authority with a ".", a "/", and a raw path with one more "/"
AcceptedShape(u) ==
    /\ u # None
    /\ \E i \in 0..Len(u) :
          /\ OccursAt(u, hyperlink_preamble, i)
          /\ \A k \in 0..(i - 1) : ~OccursAt(u, hyperlink_preamble, k)
          /\ \E j \in (i + 4)..QueryStart(u) :
                /\ u[j] = "/"
                /\ \A k \in (i + 4)..(j - 1) : u[k] # "/"
                /\ \E d \in (i + 4)..(j - 1) : u[d] = "."
                /\ \E m \in (j + 1)..QueryStart(u) : u[m] = "/"

\* C10: parse_blob_url never raises, returns the map with all six fields
\* exactly for the URIs of the accepted shape, and the empty map for every
\* other string and for None.
C10_AllOrNothing ==
    output.done =>
        /\ ~output.value.raised
        /\ AcceptedShape(input) => DOMAIN output.value.value = MapFields
        /\ ~AcceptedShape(input) => DOMAIN output.value.value = {}

\* an authority with a dot and one path segment only is refused
C10_Witness ==
    /\ output.done
    /\ input = <<"h", ":", "/", "/", "a", ".", "/", "a">>
    /\ DOMAIN output.value.value = {}

HasChar(s, ch) == \E i \in 1..Len(s) : s[i] = ch

\* the text of s before the first ch, and after it; all of s without a ch
BeforeFirst(s, ch) ==
    IF HasChar(s, ch)
    THEN SubSeq(s, 1, (CHOOSE i \in 1..Len(s) :
                          s[i] = ch /\ \A k \in 1..(i - 1) : s[k] # ch) - 1)
    ELSE s
AfterFirst(s, ch) ==
    IF HasChar(s, ch)
    THEN SubSeq(s, (CHOOSE i \in 1..Len(s) :
                       s[i] = ch /\ \A k \in 1..(i - 1) : s[k] # ch) + 1, Len(s))
    ELSE s
\* the text of s after the last ch; all of s without a ch
AfterLast(s, ch) ==
    IF HasChar(s, ch)
    THEN SubSeq(s, (CHOOSE i \in 1..Len(s) :
                       s[i] = ch /\ \A k \in (i + 1)..Len(s) : s[k] # ch) + 1,
                Len(s))
    ELSE s

\* the parts of a URI as the claim names them: what follows the first "://"
\* up to the first "?", cut at its first "/" into authority and raw path
AfterPreamble(u) ==
    SubSeq(u, (CHOOSE i \in 1..Len(u) :
                  /\ OccursAt(u, hyperlink_preamble, i - 1)
                  /\ \A k \in 1..(i - 1) : ~OccursAt(u, hyperlink_preamble, k - 1))
              + 3, QueryStart(u))
Authority(u) == BeforeFirst(AfterPreamble(u), "/")
RawPath(u) == AfterFirst(AfterPreamble(u), "/")
ObjectPath(u) == AfterFirst(RawPath(u), "/")

UrlAccepted == output.done /\ DOMAIN output.value.value = MapFields

\* C11: for every URI that parse_blob_url accepts, sas is the text from the
\* first "?" on (None without a "?"), account the authority before its first
\* ".", container the raw path before its first "/", blob_path the rest of
\* the raw path, file_name the text after the last "/" of blob_path (all of it
\* without a "/"), and file_extension the text after the last "." of
\* file_name (None without a ".").
C11_FieldsOfAcceptedUri ==
    UrlAccepted =>
        LET m == output.value.value
        IN  /\ m.sas = IF HasChar(input, "?")
                       THEN SubSeq(input, QueryStart(input) + 1, Len(input))
                       ELSE None
            /\ m.account = BeforeFirst(Authority(input), ".")
            /\ m.container = BeforeFirst(RawPath(input), "/")
            /\ m.blob_path = ObjectPath(input)
            /\ m.file_name = AfterLast(ObjectPath(input), "/")
            /\ m.file_extension =
                   IF HasChar(AfterLast(ObjectPath(input), "/"), ".")
                   THEN AfterLast(AfterLast(ObjectPath(input), "/"), ".")
                   ELSE None

\* a blob path with a directory, a file name with two dots, a token with two
\* question marks
C11_Witness ==
    /\ UrlAccepted
    /\ input = <<"h", ":", "/", "/", "a", ".", "b", "/", "l", "/", "d", "/", "r", ".", "t", ".", "c", "?", "s", "?", "t">>
    /\ output.value.value =
          [account |-> <<"a">>, container |-> <<"l">>,
           blob_path |-> <<"d", "/", "r", ".", "t", ".", "c">>,
           file_name |-> <<"r", ".", "t", ".", "c">>,
           file_extension |-> <<"c">>, sas |-> <<"?", "s", "?", "t">>]

----------------------------------------------------------------------------
(* Claims about the local file name of download_blob, under SpecName. *)

IsSeparator(ch) == ch = "/" \/ ch = "\\"

\* the text after the last "/" or "\" of s; all of s without either
AfterLastSeparator(s) ==
    IF \E i \in 1..Len(s) : IsSeparator(s[i])
    THEN SubSeq(s, (CHOOSE i \in 1..Len(s) :
                       /\ IsSeparator(s[i])
                       /\ \A k \in (i + 1)..Len(s) : ~IsSeparator(s[k])) + 1,
                Len(s))
    ELSE s

MixesSeparators(s) == HasChar(s, "/") /\ HasChar(s, "\\")

\* C17 as claimed: for every blob path, those that mix "/" and "\" included,
\* the file name has neither separator in it and is the text after the last
\* separator.
C17_NameAfterLastOfEither ==
    output.done =>
        /\ ~HasChar(output.value, "/")
        /\ ~HasChar(output.value, "\\")
        /\ output.value = AfterLastSeparator(input)

\* C17: for a blob path that does not mix the separators the file name has
\* neither separator in it and is the text after the last separator; for one
\* that mixes them it is the text after the last "/".
C17_LocalFileName ==
    output.done =>
        /\ ~HasChar(output.value, "/")
        /\ ~MixesSeparators(input) =>
               /\ ~HasChar(output.value, "\\")
               /\ output.value = AfterLastSeparator(input)
        /\ MixesSeparators(input) => output.value = AfterLast(input, "/")

\* a path with backslashes only
C17_Witness ==
    /\ output.done
    /\ input = <<"\\", "a", "\\", "a">>
    /\ output.value = <<"a">>

----------------------------------------------------------------------------
(* Claims about download_blob and list_blobs, under SpecDownload. *)

\* the name of the local file as the claims word it: the text after the last
\* "/" of a path that has a "/", otherwise the text after its last "\", and
\* all of a path that has neither
ResolvedName(blob_path) ==
    IF HasChar(blob_path, "/") THEN AfterLast(blob_path, "/")
    ELSE AfterLast(blob_path, "\\")

\* the resolved target can be a file: its name is not empty, not "." and not
\* "..", and the local directory holds no directory of that name
TargetIsFileName(dir, blob_path, ds) ==
    /\ ResolvedName(blob_path) # <<>>
    /\ ResolvedName(blob_path) # <<".">>
    /\ ResolvedName(blob_path) # <<".", ".">>
    /\ \A d \in ds : ~(d.dir = dir /\ d.name = ResolvedName(blob_path))

\* the files of the local directory of the last call
FilesOfDir == {f \in files : f.dir = call.dir}

\* a download_blob that follows a successful upload_blob of the same container
\* and path at once, into a directory holding nothing, with no step failing
RoundTripCase ==
    /\ DownloadDone
    /\ call.follows # None
    /\ call.dir_empty
    /\ call.fault = "none"

RoundTripHolds(name) ==
    /\ result = Returned(PyTrue)
    /\ FilesOfDir = {[dir |-> call.dir, name |-> name, data |-> call.follows]}

\* C4 as claimed: upload_blob then download_blob into an empty directory
\* returns True and leaves a file named by the path's final segment, the text
\* after its last separator, with the bytes of the uploaded file, for every
\* path.
C4_RoundTripAnyPath ==
    RoundTripCase => RoundTripHolds(AfterLastSeparator(call.blob_path))

\* C4: upload_blob then download_blob into an empty directory returns True and
\* leaves one file with the bytes of the uploaded file, named by the text after
\* the last "/" of the path, or after its last "\" when it has no "/", when
\* that name is not empty, "." or ".."; for the other paths the download
\* fails at the local target and leaves the directory empty.
C4_RoundTrip ==
    /\ (RoundTripCase /\ TargetIsFileName(call.dir, call.blob_path, dirs))
           => RoundTripHolds(ResolvedName(call.blob_path))
    /\ (RoundTripCase /\ ~TargetIsFileName(call.dir, call.blob_path, dirs))
           => /\ result = Traced(Raised)
              /\ FilesOfDir = {}

\* the round trip of a path with a backslash
C4_Witness ==
    /\ RoundTripCase
    /\ call.blob_path = <<"b", "\\", "a">>
    /\ call.follows = <<"2">>
    /\ result = Returned(PyTrue)
    /\ files = {[dir |-> "dl", name |-> <<"a">>, data |-> <<"2">>]}

\* a download_blob of a path the fresh listing does not hold, the container
\* lookup and the listing having worked
NotFoundCase ==
    /\ DownloadDone
    /\ ~call.listed
    /\ call.fault \notin {"container", "create", "list"}

NotFoundHolds ==
    /\ result = Returned(PyFalse)
    /\ FileAt(files, <<call.dir, ResolvedName(call.blob_path)>>) = {}

\* C5 as claimed: download_blob of a path that is not listed returns False
\* without raising and leaves no file at the local destination, for every path.
C5_NotFoundAnyPath == NotFoundCase => NotFoundHolds

\* C5: download_blob of a path that is not listed, whose resolved name is not
\* empty, "." or ".." and is not the name of a directory of the local
\* directory, returns False and leaves no file at the destination; with any
\* other target the call fails at the target, raising or, in a store with
\* trace logging, returning None, and sends no request to the service.
C5_NotFound ==
    /\ (NotFoundCase /\ TargetIsFileName(call.dir, call.blob_path, dirs))
           => NotFoundHolds
    /\ (NotFoundCase /\ ~TargetIsFileName(call.dir, call.blob_path, dirs))
           => /\ result = Traced(Raised)
              /\ call.requests = <<>>

\* a file downloaded earlier is removed by the download of a backslash path of
\* the same resolved name that the container does not hold
C5_Witness ==
    /\ NotFoundCase
    /\ call.blob_path = <<"b", "\\", "a">>
    /\ call.dest_existed
    /\ result = Returned(PyFalse)
    /\ files = {}

\* a step that is one call of list_blobs or of download_blob
ReadingStep ==
    /\ pc = "idle"
    /\ ncalls' = ncalls + 1
    /\ call'.op \in {"list_blobs", "download_blob"}

\* what the call leaves of the account: every blob of every container, every
\* other container, and the named container unless it was absent and is now
\* there and empty
ReadingFrame(name) ==
    /\ \A c \in Containers : remote'[c].blobs = remote[c].blobs
    /\ \A c \in Containers \ {name} : remote'[c] = remote[c]
    /\ remote'[name] \in {remote[name], NewContainer}
    /\ remote[name].exists => remote'[name] = remote[name]

\* the container is there after the call, and a call with no failing step
\* answers from the listing of the container as it is now
ReadingCreatesAndLists(name) ==
    /\ remote'[name].exists
    /\ Len(call'.requests) > 0
    /\ call'.requests[1] = ListRequest[1]
    /\ call'.fault = "none" =>
           IF call'.op = "list_blobs"
           THEN result' = [raised |-> FALSE, value |-> BlobNames(remote', name)]
           ELSE result' = Returned(IF call'.blob_path \in BlobNames(remote', name)
                                   THEN PyTrue ELSE PyFalse)

\* the call reaches the container: it is a list_blobs, or a download_blob
\* whose local target can be a file
ReachesContainer ==
    call'.op = "download_blob"
        => TargetIsFileName(call'.dir, call'.blob_path, dirs')

\* C16 as claimed: list_blobs and download_blob change nothing of the account
\* but the creation of the named container, and, their container requests
\* succeeding, create the container when it is absent and answer from a fresh
\* listing, for every blob path.
C16_CreatesForAnyPath ==
    [][ReadingStep =>
        /\ ReadingFrame(call'.container)
        /\ call'.fault \notin {"container", "create"}
               => ReadingCreatesAndLists(call'.container)]_vars

\* C16: list_blobs and download_blob change nothing of the account but the
\* creation of the named container. Their container requests succeeding,
\* list_blobs, and download_blob when its local target can be a file, create
\* the container when it is absent and answer from a fresh listing. A
\* download_blob whose local target is a directory sends no request, leaves
\* the account as it is and fails: it raises, or returns None in a store with
\* trace logging.
C16_OnlyCreatesContainer ==
    [][ReadingStep =>
        /\ ReadingFrame(call'.container)
        /\ (call'.fault \notin {"container", "create"} /\ ReachesContainer)
               => ReadingCreatesAndLists(call'.container)
        /\ ~ReachesContainer
               => /\ remote' = remote
                  /\ call'.requests = <<>>
                  /\ result' = Traced(Raised)]_vars

\* a download_blob of a backslash path from a container that was absent: the
\* container is there now, empty, and the blob was not found
C16_Witness ==
    /\ DownloadDone
    /\ call.container = <<"d">>
    /\ call.blob_path = <<"b", "\\", "a">>
    /\ ~call.existed
    /\ call.requests = ListRequest \o CreateRequest
    /\ remote[<<"d">>] = NewContainer
    /\ remote[<<"c">>] = UsedAccount[<<"c">>]
    /\ result = Returned(PyFalse)

----------------------------------------------------------------------------
(* Claims about the daily run, under SpecDaily. *)

\* the data files of all the scripts of execution_details
RECURSIVE TotalFiles(_)
TotalFiles(details) ==
    IF details = <<>> THEN 0
    ELSE Len(Head(details).content) + TotalFiles(Tail(details))

NoDuplicate(paths) ==
    \A a, b \in 1..Len(paths) : a # b => paths[a] # paths[b]

\* C20: a .complete upload is called only once the upload call of every data
\* file of every script has returned, and only when a blob path was used;
\* blob_paths_used never holds a path twice; and a run that reaches its end
\* has made one .complete upload for each path of blob_paths_used, and none
\* when no path was used.
C20_CompleteAfterAllUploads ==
    /\ NoDuplicate(output.blob_paths_used)
    /\ output.marker_calls > 0 =>
           /\ Len(output.uploads) = TotalFiles(input)
           /\ Len(output.blob_paths_used) > 0
    /\ output.markers <= output.marker_calls
    /\ output.marker_calls <= Len(output.blob_paths_used)
    /\ output.pc \in {"cleanup", "done"} =>
           /\ output.markers = Len(output.blob_paths_used)
           /\ output.marker_calls = output.markers
           /\ Len(output.uploads) = TotalFiles(input)

\* a finished run of two scripts whose blob names, p and p/, are one path:
\* two data files uploaded, then one .complete, and the temp directory gone
C20_Witness ==
    /\ output.pc = "done"
    /\ Len(input) = 2
    /\ input[1].blob_name = <<"p">>
    /\ input[2].blob_name = <<"p", "/">>
    /\ output.blob_paths_used = <<<<"p", "/">>>>
    /\ Len(output.uploads) = 2
    /\ output.markers = 1
    /\ files = {}
    /\ BlobNames(remote, DailyContainer)
           = {<<"a">>, <<"p", "/", "f", "1">>, <<"p", "/", "f", "3">>,
              CompleteName}

----------------------------------------------------------------------------
(* Claims about generate_uri and parse_blob_url together, under SpecUri. *)

\* the claim's arguments: no "/" or "?" in the container, no "?" in the
\* blob path, a token that is empty or begins with "?"
RoundTripArgs ==
    /\ ~HasChar(input.container, "/")
    /\ ~HasChar(input.container, "?")
    /\ ~HasChar(input.blob_path, "?")
    /\ (input.token = <<>> \/ Head(input.token) = "?")

Parsed == output.value.value

\* C6 as claimed: the parsed container and blob path are the arguments, and
\* the parsed sas is the token.
C6_RoundTripTokenEqual ==
    (output.done /\ RoundTripArgs)
        => /\ ~output.value.raised
           /\ DOMAIN Parsed = MapFields
           /\ Parsed.container = input.container
           /\ Parsed.blob_path = input.blob_path
           /\ Parsed.sas = input.token

\* C6: for an account name without "/" and "?", the parsed container and
\* blob path are the arguments; the parsed sas is the token when the token
\* begins with "?", and None when the token is empty.
C6_RoundTrip ==
    (/\ output.done
     /\ RoundTripArgs
     /\ ~HasChar(Format(account_name), "/")
     /\ ~HasChar(Format(account_name), "?"))
        => /\ ~output.value.raised
           /\ DOMAIN Parsed = MapFields
           /\ Parsed.container = input.container
           /\ Parsed.blob_path = input.blob_path
           /\ Parsed.sas = IF input.token = <<>> THEN None ELSE input.token

C6_Witness ==
    /\ output.done
    /\ account_name = <<"a", "c", "m", "e">>
    /\ input = [container |-> <<"c">>, blob_path |-> <<"b", "/", "b">>,
                token |-> <<"?", "s">>]
    /\ Parsed.sas = <<"?", "s">>

====
